---- MODULE Spec2Model ----
(***************************************************************************)
(* Order lifecycle of the grocery shop application: the orders and         *)
(* order_items collections behind the Firestore-backed query builder, the  *)
(* owner, delivery and customer views loaded from them, and the handlers   *)
(* of those views that write to the store.  A view holds the documents as  *)
(* its last load returned them; a handler reads its guard and its          *)
(* arguments from the view and writes to the store by document id.  Each   *)
(* awaited write of a handler is one step; the reload a handler awaits     *)
(* after its write is part of that step.                                   *)
(*                                                                         *)
(* Spec runs one customer against the owner and the delivery persons;      *)
(* SpecCustomers runs two customers against the owner; SpecCheckout runs   *)
(* the checkout form with every value of its required fields and every     *)
(* cart, the empty one included.                                           *)
(*                                                                         *)
(* The other specifications each add one part of the application to a      *)
(* placed order or to the empty store: SpecCatalog the owner's item form   *)
(* and item deletion, SpecEdit and SpecCheckoutErrors writes that the      *)
(* store fails, SpecReload reloads whose answers are still under way,      *)
(* SpecChannel the realtime listeners of the three views (with weak        *)
(* fairness on their callbacks), SpecPolling the order_placed polling      *)
(* timers, SpecNumbers customers checking out on their own clocks, and     *)
(* SpecCart the operations of the cart.                                    *)
(***************************************************************************)
EXTENDS Integers, Sequences, FiniteSets, TLC

\* ------------------------------------------------------------------ bounds
MaxOrders == 2
MaxQty == 2
MaxSteps == 6
MaxInFlight == 2
MaxTimers == 3
MaxReloads == 13
MaxCartQty == 3
MaxCartLen == 4

\* ---------------------------------------------------------------- universe
Owners == {"own1"}
Customers == {"c1", "c2"}
\* the customer signed in while the owner and the delivery persons work
FirstCustomer == {"c1"}
DeliveryBoys == {"d1", "d2"}
\* profiles.role of each person
role(p) ==
    IF p \in Owners THEN "owner" ELSE IF p \in DeliveryBoys THEN "delivery" ELSE "customer"
\* Math.random() as a fraction r / RandomScale, 0 <= r < RandomScale
RandomScale == 1000
\* the number of ticks after which a polling run clears its interval
MaxAttempts == 12
RandomDraws == {0, RandomScale - 1}

\* Number.prototype.toString, base 10, of a non-negative integer
DigitChar(d) ==
    CASE d = 0 -> "0" [] d = 1 -> "1" [] d = 2 -> "2" [] d = 3 -> "3" [] d = 4 -> "4"
      [] d = 5 -> "5" [] d = 6 -> "6" [] d = 7 -> "7" [] d = 8 -> "8" [] d = 9 -> "9"

RECURSIVE NumberToString(_)
NumberToString(n) ==
    IF n < 10 THEN DigitChar(n) ELSE NumberToString(n \div 10) \o DigitChar(n % 10)

\* a PIN drawn without the offset: Math.floor(Math.random() * 1000000).toString()
deliveryPinUnpadded(r) == NumberToString((r * 1000000) \div RandomScale)

\* Math.floor(100000 + Math.random() * 900000).toString()
deliveryPin(r) == NumberToString(100000 + (r * 900000) \div RandomScale)

\* the delivery PINs checkout can generate
Pins == {deliveryPin(r) : r \in RandomDraws}
Status == {"pending", "accepted", "delivered", "cancelled"}
DocIds == 1 .. MaxOrders
LineIds == 1 .. 2

\* a field the document does not have / an explicit null / "leave the field alone"
Undef == "undefined"
Null == "null"
Keep == "keep"
NoNumber == 0 - 1
KeepNumber == 0 - 2
\* what prompt() returns when the dialog is confirmed (a cancelled dialog returns
\* null and both handlers return at once, changing nothing)
PromptInputs == Pins \cup {""}

\* values of a required address field of the checkout form
FieldValues == {"", " ", "x"}
Forms == [villageName : FieldValues, streetName : FieldValues, pinCode : FieldValues]

\* the variants of the catalog item, and the names the owner may give the item
VariantIds == {"v1", "v2"}
ItemNames == {"rice", "basmati rice"}

\* carts a customer may check out: entries of (variant, price, quantity)
Carts ==
    { << [variant |-> "v1", price |-> 50, quantity |-> 2],
         [variant |-> "v2", price |-> 30, quantity |-> 1] >>,
      << [variant |-> "v2", price |-> 30, quantity |-> 1] >> }

VARIABLES
    orders,       \* orders collection: DocIds -> document
    items,        \* order_items collection, keyed by order_id: DocIds -> Seq(line)
    nextId,       \* next document id addDoc hands out
    ownerView,    \* OrdersManagement.orders, per owner session
    delivView,    \* DeliveryDashboard.orders, per delivery person
    custView,     \* OrderHistory.orders, per customer
    editing,      \* editingOrderId / editedQuantities, per owner session
    saving,       \* a saveEditedQuantities call in progress, per owner session
    placing,      \* a Checkout.handleSubmit call in progress, per customer
    last,         \* the handler that ran last and what it reported
    steps,        \* handlers run so far
    catalog,      \* the items and item_variants collections, and ItemForm's submit
    inflight,     \* answers of loadOrders calls not yet passed to setOrders, per owner session
    heard,        \* the query result each view's Channel listener was last called with
    poll,         \* the polling effect of OrdersManagement and of CustomerApp
    cartItems     \* CartProvider's cart

vars == << orders, items, nextId, ownerView, delivView, custView,
           editing, saving, placing, last, steps, catalog, inflight, heard, poll,
           cartItems >>

\* ------------------------------------------------------------------ store
NoDoc ==
    [exists |-> FALSE, status |-> Undef, dboy |-> Undef, total |-> NoNumber,
     pin |-> Undef, cust |-> Undef, number |-> NoNumber]

NoPatch == [status |-> Keep, dboy |-> Keep, total |-> KeepNumber]

\* JavaScript truthiness of delivery_boy_id / delivery_pin
Truthy(x) == x \notin {Undef, Null, ""}

\* CartContext.totalAmount
RECURSIVE totalAmount(_)
totalAmount(cart) ==
    IF cart = << >> THEN 0
    ELSE Head(cart).price * Head(cart).quantity + totalAmount(Tail(cart))

\* documents of the top-level orders collection
AllDocs(ords) == {d \in DocIds : ords[d].exists}

\* .eq('id', o)
QueryById(ords, o) == {d \in AllDocs(ords) : d = o}

\* .eq('id', o).eq('delivery_boy_id', u)
QueryByIdAndBoy(ords, o, u) == {d \in AllDocs(ords) : d = o /\ ords[d].dboy = u}

\* QueryBuilder.get: when the query on orders is empty, the collectionGroup
\* fallback replaces the result by every orders document
ResultDocs(ords, q) == IF q = {} THEN AllDocs(ords) ELSE q

\* updateDoc(doc.ref, payload): the payload's fields overwrite the document's
MergeDoc(doc, p) ==
    [doc EXCEPT !.status = IF p.status = Keep THEN @ ELSE p.status,
                !.dboy = IF p.dboy = Keep THEN @ ELSE p.dboy,
                !.total = IF p.total = KeepNumber THEN @ ELSE p.total]

\* addDoc(colRef, payload): a new document holding the payload's fields only
AddedDoc(p) ==
    [exists |-> TRUE,
     status |-> IF p.status = Keep THEN Undef ELSE p.status,
     dboy |-> IF p.dboy = Keep THEN Undef ELSE p.dboy,
     total |-> IF p.total = KeepNumber THEN NoNumber ELSE p.total,
     pin |-> Undef, cust |-> Undef, number |-> NoNumber]

\* QueryBuilder.get, update branch, on the orders table
UpdateCreates(ords, q) == ResultDocs(ords, q) = {}

UpdatedOrders(ords, q, p, fresh) ==
    IF ResultDocs(ords, q) # {}
    THEN [d \in DocIds |->
            IF d \in ResultDocs(ords, q) THEN MergeDoc(ords[d], p) ELSE ords[d]]
    ELSE [ords EXCEPT ![fresh] = AddedDoc(p)]

\* QueryBuilder.get, delete branch, on the orders table
DeletedOrders(ords, q) ==
    [d \in DocIds |-> IF d \in ResultDocs(ords, q) THEN NoDoc ELSE ords[d]]

\* ------------------------------------------------------------------ views
\* the join of select('*, order_items(*)'): lines whose order_id is the order's id
JoinedOrder(ords, its, d) ==
    [doc |-> ords[d], order_items |-> its[d]]

NoJoined == [doc |-> NoDoc, order_items |-> << >>]

\* OrdersManagement.loadOrders: every order with its lines
OwnerSnapshot(ords, its) ==
    [d \in DocIds |-> IF ords[d].exists THEN JoinedOrder(ords, its, d) ELSE NoJoined]

\* only the payload of Checkout.handleSubmit carries created_at (and customer_id);
\* a query ordered by created_at returns no document without that field
HasCreatedAt(doc) == doc.cust # Undef

\* DeliveryDashboard.loadAssigned followed by the client-side assignment filter
AssignedQuery(ords, u) ==
    {d \in AllDocs(ords) :
        /\ ords[d].dboy = u
        /\ ords[d].status \notin {"cancelled", Undef}
        /\ HasCreatedAt(ords[d])}

DeliverySnapshot(ords, u) ==
    [d \in DocIds |->
        IF d \in ResultDocs(ords, AssignedQuery(ords, u)) /\ ords[d].dboy = u
        THEN ords[d] ELSE NoDoc]

\* OrderHistory.loadOrders
CustomerQuery(ords, c) == {d \in AllDocs(ords) : ords[d].cust = c}

CustomerSnapshot(ords, c) ==
    [d \in DocIds |->
        IF d \in ResultDocs(ords, CustomerQuery(ords, c)) THEN ords[d] ELSE NoDoc]

\* ------------------------------------------------------------------- state
NotEditing == [order |-> 0, qty |-> [l \in LineIds |-> NoNumber]]
NotSaving == [order |-> 0, updates |-> << >>, newTotal |-> 0]
NotPlacing == [order |-> 0, cart |-> << >>]
\* the views that poll after an order_placed signal
Pollers == {"OrdersManagement", "CustomerApp"}
\* the polling effect as it starts: listeners registered, let intervalId = null (0),
\* let attempts = 0; timers are the window's active intervals created by the
\* effect, reloads counts the loads since the last setInterval
Mounted(nextTimer) ==
    [mounted |-> TRUE, intervalId |-> 0, attempts |-> 0, timers |-> {},
     nextTimer |-> nextTimer, reloads |-> 0]
NotSubmitting == [stage |-> "idle", name |-> "", keep |-> {}, idsToDelete |-> {}]

Init ==
    /\ orders = [d \in DocIds |-> NoDoc]
    /\ items = [d \in DocIds |-> << >>]
    /\ nextId = 1
    /\ ownerView = [s \in Owners |-> [d \in DocIds |-> NoJoined]]
    /\ delivView = [u \in DeliveryBoys |-> [d \in DocIds |-> NoDoc]]
    /\ custView = [c \in Customers |-> [d \in DocIds |-> NoDoc]]
    /\ editing = [s \in Owners |-> NotEditing]
    /\ saving = [s \in Owners |-> NotSaving]
    /\ placing = [c \in Customers |-> NotPlacing]
    /\ last = [op |-> "init", who |-> "", order |-> 0, input |-> "", outcome |-> ""]
    /\ steps = 0
    /\ catalog = [exists |-> TRUE, name |-> "rice", variants |-> VariantIds,
                  form |-> NotSubmitting]
    /\ inflight = [s \in Owners |-> {}]
    /\ heard = [p \in Owners \cup Customers \cup DeliveryBoys |-> [d \in DocIds |-> NoDoc]]
    /\ poll = [v \in Pollers |-> Mounted(1)]
    /\ cartItems = << >>

StepCount(op, who, o, input, outcome) ==
    /\ steps < MaxSteps
    /\ steps' = steps + 1
    /\ last' = [op |-> op, who |-> who, order |-> o, input |-> input, outcome |-> outcome]

\* a step of a handler of the order views: the catalog is left alone
Step(op, who, o, input, outcome) ==
    /\ StepCount(op, who, o, input, outcome)
    /\ UNCHANGED << catalog, inflight, heard, poll, cartItems >>

\* ------------------------------------------------------ customer: checkout
\* Checkout.handleSubmit up to the orders insert, submitted when Date.now() is t:
\* order_number is `ORD${Date.now()}`
PlaceOrderInsertAt(c, cart, pin, t) ==
    /\ placing[c].order = 0
    /\ nextId <= MaxOrders
    /\ orders' = [orders EXCEPT ![nextId] =
            [exists |-> TRUE, status |-> "pending", dboy |-> Undef,
             total |-> totalAmount(cart), pin |-> pin, cust |-> c, number |-> t]]
    /\ nextId' = nextId + 1
    /\ placing' = [placing EXCEPT ![c] = [order |-> nextId, cart |-> cart]]
    /\ Step("placeOrder", c, nextId, "", "pending")
    /\ UNCHANGED << items, ownerView, delivView, custView, editing, saving >>

\* ... by sessions whose submits fall in different milliseconds: the n-th submit
\* reads the n-th value of Date.now()
PlaceOrderInsert(c, cart, pin) == PlaceOrderInsertAt(c, cart, pin, nextId)

\* String.prototype.trim on the values an address field takes here
Trim(str) == IF str \in {"", " "} THEN "" ELSE str

\* Checkout.handleSubmit: the checks on the address fields, then the orders insert
handleSubmit(c, form, cart, pin) ==
    IF ~ Truthy(Trim(form.villageName))
    THEN /\ Step("placeOrder", c, 0, "Please enter your village name", "ValidationFailed")
         /\ UNCHANGED << orders, items, nextId, ownerView, delivView, custView,
                         editing, saving, placing >>
    ELSE IF ~ Truthy(Trim(form.streetName))
    THEN /\ Step("placeOrder", c, 0, "Please enter your street name", "ValidationFailed")
         /\ UNCHANGED << orders, items, nextId, ownerView, delivView, custView,
                         editing, saving, placing >>
    ELSE IF ~ Truthy(Trim(form.pinCode))
    THEN /\ Step("placeOrder", c, 0, "Please enter your PIN code", "ValidationFailed")
         /\ UNCHANGED << orders, items, nextId, ownerView, delivView, custView,
                         editing, saving, placing >>
    ELSE PlaceOrderInsert(c, cart, pin)

\* the lines Checkout.handleSubmit builds from the cart
OrderItemsOf(cart) ==
    [l \in 1 .. Len(cart) |->
        [variant |-> cart[l].variant, quantity |-> cart[l].quantity,
         price |-> cart[l].price, subtotal |-> cart[l].price * cart[l].quantity]]

\* Checkout.handleSubmit from the order_items insert on
PlaceOrderItems(c) ==
    /\ placing[c].order # 0
    /\ items' = [items EXCEPT ![placing[c].order] = OrderItemsOf(placing[c].cart)]
    /\ placing' = [placing EXCEPT ![c] = NotPlacing]
    /\ Step("placeOrder", c, placing[c].order, "", "ok")
    /\ UNCHANGED << orders, nextId, ownerView, delivView, custView, editing, saving >>

\* ------------------------------------------------------------------- loads
OwnerLoad(s) ==
    /\ ownerView' = [ownerView EXCEPT ![s] = OwnerSnapshot(orders, items)]
    /\ ownerView'[s] # ownerView[s]
    /\ Step("load", s, 0, "", "ok")
    /\ UNCHANGED << orders, items, nextId, delivView, custView, editing, saving, placing >>

DeliveryLoad(u) ==
    /\ delivView' = [delivView EXCEPT ![u] = DeliverySnapshot(orders, u)]
    /\ delivView'[u] # delivView[u]
    /\ Step("load", u, 0, "", "ok")
    /\ UNCHANGED << orders, items, nextId, ownerView, custView, editing, saving, placing >>

CustomerLoad(c) ==
    /\ custView' = [custView EXCEPT ![c] = CustomerSnapshot(orders, c)]
    /\ custView'[c] # custView[c]
    /\ Step("load", c, 0, "", "ok")
    /\ UNCHANGED << orders, items, nextId, ownerView, delivView, editing, saving, placing >>

\* --------------------------------------------------- writes to the orders table
\* supabase.from('orders').update(p) with the filters of query q
WriteOrders(q, p) ==
    /\ UpdateCreates(orders, q) => nextId <= MaxOrders
    /\ orders' = UpdatedOrders(orders, q, p, nextId)
    /\ nextId' = IF UpdateCreates(orders, q) THEN nextId + 1 ELSE nextId

\* supabase.from('orders').delete() with the filters of query q
DeleteOrders(q) ==
    /\ orders' = DeletedOrders(orders, q)
    /\ nextId' = nextId

\* ----------------------------------------------------------- owner: status
\* updateOrderStatus with the cancelled branch of its payload left out
StatusPayloadKeepingDeliveryBoy(st) == [NoPatch EXCEPT !.status = st]

\* the payload updateOrderStatus builds
StatusPayload(st) ==
    [NoPatch EXCEPT !.status = st,
                    !.dboy = IF st = "cancelled" THEN Null ELSE Keep]

Idle(s) == saving[s].order = 0

\* updateOrderStatus(orderId, status): the update, then loadOrders
updateOrderStatus(s, o, st, op, input) ==
    /\ WriteOrders(QueryById(orders, o), StatusPayload(st))
    /\ ownerView' = [ownerView EXCEPT ![s] = OwnerSnapshot(orders', items)]
    /\ Step(op, s, o, input, "ok")
    /\ UNCHANGED << items, delivView, custView, editing, saving, placing >>

\* the block of actions rendered for an order that is not delivered
ShowsActions(s, o) ==
    /\ ownerView[s][o].doc.exists
    /\ ownerView[s][o].doc.status # "delivered"

\* "Accept Order", rendered for a pending order
OwnerAccept(s, o) ==
    /\ Idle(s)
    /\ ownerView[s][o].doc.exists
    /\ ownerView[s][o].doc.status = "pending"
    /\ updateOrderStatus(s, o, "accepted", "ownerAccept", "")

\* "Cancel Order", rendered for a pending order
OwnerCancel(s, o) ==
    /\ Idle(s)
    /\ ownerView[s][o].doc.exists
    /\ ownerView[s][o].doc.status = "pending"
    /\ updateOrderStatus(s, o, "cancelled", "ownerCancel", "")

\* "Mark as Delivered", rendered for an accepted order without a delivery person
OwnerMarkDelivered(s, o) ==
    /\ Idle(s)
    /\ ownerView[s][o].doc.exists
    /\ ~ Truthy(ownerView[s][o].doc.dboy)
    /\ ownerView[s][o].doc.status = "accepted"
    /\ updateOrderStatus(s, o, "delivered", "ownerMarkDelivered", "")

\* the PIN check with its comparison inverted
PinRejectedWhenEqual(expectedPin, pin) == Truthy(expectedPin) /\ pin = expectedPin

\* the check both PIN prompts make on the submitted string
PinRejected(expectedPin, pin) == Truthy(expectedPin) /\ pin # expectedPin

\* "Deliver (PIN)": tryMarkDeliveredWithPin(order.id, order.delivery_pin)
OwnerDeliverPin(s, o, pin) ==
    /\ Idle(s)
    /\ ShowsActions(s, o)
    /\ IF pin = ""
       THEN /\ Step("ownerDeliverPin", s, o, pin, "aborted")
            /\ UNCHANGED << orders, items, nextId, ownerView, delivView, custView,
                            editing, saving, placing >>
       ELSE IF PinRejected(ownerView[s][o].doc.pin, pin)
       THEN /\ Step("ownerDeliverPin", s, o, pin, "PinMismatch")
            /\ UNCHANGED << orders, items, nextId, ownerView, delivView, custView,
                            editing, saving, placing >>
       ELSE updateOrderStatus(s, o, "delivered", "ownerDeliverPin", pin)

\* the "Assign Delivery Boy" select: assignDeliveryBoy(order.id, value || null)
assignDeliveryBoy(s, o, b) ==
    /\ Idle(s)
    /\ ShowsActions(s, o)
    /\ b \in DeliveryBoys \cup {Null}
    /\ b # (IF Truthy(ownerView[s][o].doc.dboy) THEN ownerView[s][o].doc.dboy ELSE Null)
    /\ WriteOrders(QueryById(orders, o), [NoPatch EXCEPT !.dboy = b])
    /\ ownerView' = [ownerView EXCEPT ![s] = OwnerSnapshot(orders', items)]
    /\ Step("assign", s, o, b, "ok")
    /\ UNCHANGED << items, delivView, custView, editing, saving, placing >>

\* --------------------------------------------------- owner: edit quantities
\* startEditingOrder(order): editedQuantities holds the quantity of each line shown
startEditingOrder(s, o) ==
    /\ Idle(s)
    /\ ShowsActions(s, o)
    /\ editing[s].order # o
    /\ editing' = [editing EXCEPT ![s] =
            [order |-> o,
             qty |-> [l \in LineIds |->
                        IF l <= Len(ownerView[s][o].order_items)
                        THEN ownerView[s][o].order_items[l].quantity
                        ELSE NoNumber]]]
    /\ Step("startEditing", s, o, "", "ok")
    /\ UNCHANGED << orders, items, nextId, ownerView, delivView, custView, saving, placing >>

\* Math.max(0, Math.floor(value))
ClampQuantity(value) == IF value < 0 THEN 0 ELSE value

\* changeEditedQuantity(orderItemId, value), from the input of a line of the order
\* being edited
changeEditedQuantity(s, l, value) ==
    /\ Idle(s)
    /\ editing[s].order # 0
    /\ ownerView[s][editing[s].order].doc.exists
    /\ l <= Len(ownerView[s][editing[s].order].order_items)
    /\ editing[s].qty[l] # ClampQuantity(value)
    /\ editing' = [editing EXCEPT ![s].qty[l] = ClampQuantity(value)]
    /\ Step("changeQuantity", s, editing[s].order, "", "ok")
    /\ UNCHANGED << orders, items, nextId, ownerView, delivView, custView, saving, placing >>

\* saveEditedQuantities: the updates and the total computed from the order as the
\* view holds it
requested(s, order, l) ==
    IF editing[s].qty[l] # NoNumber THEN editing[s].qty[l]
    ELSE order.order_items[l].quantity

EditUpdates(s, order) ==
    [l \in 1 .. Len(order.order_items) |->
        [line |-> l, quantity |-> requested(s, order, l),
         subtotal |-> requested(s, order, l) * order.order_items[l].price]]

RECURSIVE newTotal(_)
newTotal(updates) ==
    IF updates = << >> THEN 0
    ELSE Head(updates).subtotal + newTotal(Tail(updates))

\* supabase.from('order_items').update({quantity, subtotal}).eq('id', u.id)
UpdatedItems(its, o, u) ==
    [its EXCEPT ![o][u.line].quantity = u.quantity, ![o][u.line].subtotal = u.subtotal]

\* saveEditedQuantities, one order_items update
SaveLine(s, o, updates, total) ==
    /\ items' = UpdatedItems(items, o, Head(updates))
    /\ saving' = [saving EXCEPT ![s] =
            [order |-> o, updates |-> Tail(updates), newTotal |-> total]]
    /\ Step("saveEditedQuantities", s, o, "", "pending")
    /\ UNCHANGED << orders, nextId, ownerView, delivView, custView, editing, placing >>

\* saveEditedQuantities from the update of the order's total_amount to cancelEditing
SaveTotal(s, o, total) ==
    /\ WriteOrders(QueryById(orders, o), [NoPatch EXCEPT !.total = total])
    /\ ownerView' = [ownerView EXCEPT ![s] = OwnerSnapshot(orders', items)]
    /\ editing' = [editing EXCEPT ![s] = NotEditing]
    /\ saving' = [saving EXCEPT ![s] = NotSaving]
    /\ Step("saveEditedQuantities", s, o, "", "ok")
    /\ UNCHANGED << items, delivView, custView, placing >>

\* "Save Changes" with the total written before the lines
saveEditedQuantitiesTotalFirst(s) ==
    /\ Idle(s)
    /\ editing[s].order # 0
    /\ ShowsActions(s, editing[s].order)
    /\ SaveTotal(s, editing[s].order, newTotal(EditUpdates(s, ownerView[s][editing[s].order])))

\* "Save Changes": saveEditedQuantities(order) up to its first write
saveEditedQuantities(s) ==
    /\ Idle(s)
    /\ editing[s].order # 0
    /\ ShowsActions(s, editing[s].order)
    /\ LET o == editing[s].order
           updates == EditUpdates(s, ownerView[s][o])
       IN IF updates = << >>
          THEN SaveTotal(s, o, newTotal(updates))
          ELSE SaveLine(s, o, updates, newTotal(updates))

\* saveEditedQuantities, its next write
SaveContinue(s) ==
    /\ saving[s].order # 0
    /\ IF saving[s].updates = << >>
       THEN SaveTotal(s, saving[s].order, saving[s].newTotal)
       ELSE SaveLine(s, saving[s].order, saving[s].updates, saving[s].newTotal)

\* -------------------------------------------------------- delivery person
\* DeliveryDashboard.acceptOrder, rendered for a pending order assigned to the user
acceptOrder(u, o) ==
    /\ delivView[u][o].exists
    /\ delivView[u][o].status = "pending"
    /\ delivView[u][o].dboy = u
    /\ WriteOrders(QueryByIdAndBoy(orders, o, u), [NoPatch EXCEPT !.status = "accepted"])
    /\ delivView' = [delivView EXCEPT ![u] = DeliverySnapshot(orders', u)]
    /\ Step("acceptOrder", u, o, "", "ok")
    /\ UNCHANGED << items, ownerView, custView, editing, saving, placing >>

\* DeliveryDashboard.confirmDelivery, one round of its prompt loop
confirmDelivery(u, o, pin) ==
    /\ delivView[u][o].exists
    /\ IF PinRejected(delivView[u][o].pin, pin)
       THEN /\ Step("confirmDelivery", u, o, pin, "PinMismatch")
            /\ UNCHANGED << orders, items, nextId, ownerView, delivView, custView,
                            editing, saving, placing >>
       ELSE /\ WriteOrders(QueryById(orders, o), [NoPatch EXCEPT !.status = "delivered"])
            /\ delivView' = [delivView EXCEPT ![u] = DeliverySnapshot(orders', u)]
            /\ Step("confirmDelivery", u, o, pin, "ok")
            /\ UNCHANGED << items, ownerView, custView, editing, saving, placing >>

\* ------------------------------------------------- customer: cancel, delete
\* OrderHistory.confirmModalAction with modalAction = 'cancel'
CustomerCancel(c, o) ==
    /\ custView[c][o].exists
    /\ custView[c][o].status = "pending"
    /\ WriteOrders(QueryById(orders, o),
                   [NoPatch EXCEPT !.status = "cancelled", !.dboy = Null])
    /\ custView' = [custView EXCEPT ![c] = CustomerSnapshot(orders', c)]
    /\ Step("customerCancel", c, o, "", "ok")
    /\ UNCHANGED << items, ownerView, delivView, editing, saving, placing >>

\* OrderHistory.confirmModalAction with modalAction = 'delete'
CustomerDelete(c, o) ==
    /\ custView[c][o].exists
    /\ custView[c][o].status \in {"pending", "cancelled"}
    /\ DeleteOrders(QueryById(orders, o))
    /\ custView' = [custView EXCEPT ![c] = CustomerSnapshot(orders', c)]
    /\ Step("customerDelete", c, o, "", "ok")
    /\ UNCHANGED << items, ownerView, delivView, editing, saving, placing >>

Next ==
    \/ \E c \in FirstCustomer, cart \in Carts, pin \in Pins : PlaceOrderInsert(c, cart, pin)
    \/ \E c \in FirstCustomer : PlaceOrderItems(c)
    \/ \E s \in Owners : OwnerLoad(s)
    \/ \E u \in DeliveryBoys : DeliveryLoad(u)
    \/ \E c \in FirstCustomer : CustomerLoad(c)
    \/ \E s \in Owners, o \in DocIds : OwnerAccept(s, o)
    \/ \E s \in Owners, o \in DocIds : OwnerCancel(s, o)
    \/ \E s \in Owners, o \in DocIds : OwnerMarkDelivered(s, o)
    \/ \E s \in Owners, o \in DocIds, pin \in PromptInputs : OwnerDeliverPin(s, o, pin)
    \/ \E s \in Owners, o \in DocIds, b \in DeliveryBoys \cup {Null} : assignDeliveryBoy(s, o, b)
    \/ \E s \in Owners, o \in DocIds : startEditingOrder(s, o)
    \/ \E s \in Owners, l \in LineIds, value \in (0 - 1) .. MaxQty : changeEditedQuantity(s, l, value)
    \/ \E s \in Owners : saveEditedQuantities(s)
    \/ \E s \in Owners : SaveContinue(s)
    \/ \E u \in DeliveryBoys, o \in DocIds : acceptOrder(u, o)
    \/ \E u \in DeliveryBoys, o \in DocIds, pin \in PromptInputs : confirmDelivery(u, o, pin)
    \/ \E c \in FirstCustomer, o \in DocIds : CustomerCancel(c, o)
    \/ \E c \in FirstCustomer, o \in DocIds : CustomerDelete(c, o)

Spec == Init /\ [][Next]_vars

\* ------------------------------------------------------- owner: the catalog
orderVars == << orders, items, nextId, ownerView, delivView, custView,
                editing, saving, placing, inflight, heard, poll, cartItems >>

\* order_items.in('variant_id', ids).limit(1): some stored line names one of ids
Referenced(its, ids) ==
    \E d \in DocIds : \E l \in 1 .. Len(its[d]) : its[d][l].variant \in ids

\* ItemForm.handleSubmit for an existing item, up to the update of the item; keep
\* is the set of ids of the variants left in the form
ItemFormSubmit(s, name, keep) ==
    /\ catalog.form.stage = "idle"
    /\ catalog.exists
    /\ catalog' = [catalog EXCEPT !.name = name,
                                  !.form = [stage |-> "loadVariants", name |-> catalog.name,
                                            keep |-> keep, idsToDelete |-> {}]]
    /\ StepCount("itemSubmit", s, 0, name, "pending")
    /\ UNCHANGED orderVars

\* ... the load of the item's stored variants and idsToDelete
ItemFormLoadVariants(s) ==
    /\ catalog.form.stage = "loadVariants"
    /\ LET idsToDelete == catalog.variants \ catalog.form.keep
       IN catalog' = [catalog EXCEPT
              !.form.stage = IF idsToDelete = {} THEN "upsert" ELSE "checkRefs",
              !.form.idsToDelete = idsToDelete]
    /\ StepCount("itemSubmit", s, 0, "", "pending")
    /\ UNCHANGED orderVars

\* ... the check for order lines that name a variant to delete
ItemFormCheckRefs(s) ==
    /\ catalog.form.stage = "checkRefs"
    /\ IF Referenced(items, catalog.form.idsToDelete)
       THEN /\ catalog' = [catalog EXCEPT !.form = NotSubmitting]
            /\ StepCount("itemSubmit", s, 0, "", "ReferentialConflict")
       ELSE /\ catalog' = [catalog EXCEPT !.form.stage = "delete"]
            /\ StepCount("itemSubmit", s, 0, "", "pending")
    /\ UNCHANGED orderVars

\* ... item_variants.delete().in('id', idsToDelete)
ItemFormDelete(s) ==
    /\ catalog.form.stage = "delete"
    /\ catalog' = [catalog EXCEPT !.variants = @ \ catalog.form.idsToDelete,
                                  !.form.stage = "upsert"]
    /\ StepCount("itemSubmit", s, 0, "", "pending")
    /\ UNCHANGED orderVars

\* ... the upsert of the variants left in the form, and "Item updated successfully!"
ItemFormUpsert(s) ==
    /\ catalog.form.stage = "upsert"
    /\ catalog' = [catalog EXCEPT !.variants = @ \cup catalog.form.keep,
                                  !.form = NotSubmitting]
    /\ StepCount("itemSubmit", s, 0, "", "ok")
    /\ UNCHANGED orderVars

\* ItemsManagement.handleDelete: items.delete().eq('id', itemId)
handleDelete(s) ==
    /\ catalog.exists
    /\ catalog' = [catalog EXCEPT !.exists = FALSE]
    /\ StepCount("itemDelete", s, 0, "", "ok")
    /\ UNCHANGED orderVars

\* the owner editing and deleting the catalog item while a customer checks out
NextCatalog ==
    \/ \E c \in FirstCustomer, cart \in Carts, pin \in Pins : PlaceOrderInsert(c, cart, pin)
    \/ \E c \in FirstCustomer : PlaceOrderItems(c)
    \/ \E s \in Owners, name \in ItemNames, keep \in SUBSET VariantIds :
            ItemFormSubmit(s, name, keep)
    \/ \E s \in Owners : ItemFormLoadVariants(s)
    \/ \E s \in Owners : ItemFormCheckRefs(s)
    \/ \E s \in Owners : ItemFormDelete(s)
    \/ \E s \in Owners : ItemFormUpsert(s)
    \/ \E s \in Owners : handleDelete(s)

SpecCatalog == Init /\ [][NextCatalog]_vars

\* two customers signed in, each with their own OrderHistory, and the owner
\* accepting what they order
NextCustomers ==
    \/ \E c \in Customers, cart \in Carts, pin \in Pins : PlaceOrderInsert(c, cart, pin)
    \/ \E c \in Customers : PlaceOrderItems(c)
    \/ \E c \in Customers : CustomerLoad(c)
    \/ \E c \in Customers, o \in DocIds : CustomerCancel(c, o)
    \/ \E c \in Customers, o \in DocIds : CustomerDelete(c, o)
    \/ \E s \in Owners : OwnerLoad(s)
    \/ \E s \in Owners, o \in DocIds : OwnerAccept(s, o)

SpecCustomers == Init /\ [][NextCustomers]_vars

\* the checkout form submitted with any values of its required fields and any
\* cart, the empty one included
NextCheckout ==
    \/ \E c \in FirstCustomer, form \in Forms, cart \in Carts \cup {<< >>}, pin \in Pins :
            handleSubmit(c, form, cart, pin)
    \/ \E c \in FirstCustomer : PlaceOrderItems(c)
    \/ \E c \in FirstCustomer : CustomerLoad(c)
    \/ \E s \in Owners : OwnerLoad(s)

SpecCheckout == Init /\ [][NextCheckout]_vars

\* ------------------------------------- checkout: customers on their own clocks
\* the values Date.now() may return to a submit
Times == {1, 2}

\* two customers checking out, each submit reading Date.now() on its own device
NextNumbers ==
    \/ \E c \in Customers, cart \in Carts, pin \in Pins, t \in Times :
            PlaceOrderInsertAt(c, cart, pin, t)
    \/ \E c \in Customers : PlaceOrderItems(c)
    \/ \E c \in Customers : CustomerLoad(c)
    \/ \E s \in Owners : OwnerLoad(s)

SpecNumbers == Init /\ [][NextNumbers]_vars

\* ------------------------------------------------ checkout: inserts that fail
\* Checkout.handleSubmit when the orders insert returns an error: throw orderError
PlaceOrderInsertError(c) ==
    /\ placing[c].order = 0
    /\ Step("placeOrder", c, 0, "Failed to place order", "StoreError")
    /\ UNCHANGED << orders, items, nextId, ownerView, delivView, custView,
                    editing, saving, placing >>

\* Checkout.handleSubmit when the order_items insert returns an error: throw
\* itemsError; the catch alerts, clearCart is not reached
PlaceOrderItemsError(c) ==
    /\ placing[c].order # 0
    /\ placing' = [placing EXCEPT ![c] = NotPlacing]
    /\ Step("placeOrder", c, placing[c].order, "Failed to place order", "StoreError")
    /\ UNCHANGED << orders, items, nextId, ownerView, delivView, custView, editing, saving >>

\* checkout with inserts that may fail, and the lists that show the orders
NextCheckoutErrors ==
    \/ \E c \in FirstCustomer, cart \in Carts, pin \in Pins : PlaceOrderInsert(c, cart, pin)
    \/ \E c \in FirstCustomer : PlaceOrderInsertError(c)
    \/ \E c \in FirstCustomer : PlaceOrderItems(c)
    \/ \E c \in FirstCustomer : PlaceOrderItemsError(c)
    \/ \E c \in FirstCustomer : CustomerLoad(c)
    \/ \E s \in Owners : OwnerLoad(s)

SpecCheckoutErrors == Init /\ [][NextCheckoutErrors]_vars

\* ------------------------------------------- owner: edits that the store fails
\* saveEditedQuantities when the write it awaits next returns an error: the throw
\* reaches the catch, which alerts; cancelEditing is not reached
SaveError(s) ==
    /\ \/ saving[s].order # 0
       \/ /\ editing[s].order # 0
          /\ ShowsActions(s, editing[s].order)
    /\ saving' = [saving EXCEPT ![s] = NotSaving]
    /\ Step("saveEditedQuantities", s,
            IF saving[s].order # 0 THEN saving[s].order ELSE editing[s].order,
            "Failed to save quantities", "StoreError")
    /\ UNCHANGED << orders, items, nextId, ownerView, delivView, custView, editing, placing >>

\* a customer has checked out and the owner's list shows the order
InitPlaced ==
    /\ \E cart \in Carts, pin \in Pins :
          /\ orders = [d \in DocIds |->
                IF d = 1
                THEN [exists |-> TRUE, status |-> "pending", dboy |-> Undef,
                      total |-> totalAmount(cart), pin |-> pin, cust |-> "c1",
                      number |-> 1]
                ELSE NoDoc]
          /\ items = [d \in DocIds |-> IF d = 1 THEN OrderItemsOf(cart) ELSE << >>]
    /\ nextId = 2
    /\ ownerView = [s \in Owners |-> OwnerSnapshot(orders, items)]
    /\ delivView = [u \in DeliveryBoys |-> [d \in DocIds |-> NoDoc]]
    /\ custView = [c \in Customers |-> [d \in DocIds |-> NoDoc]]
    /\ editing = [s \in Owners |-> NotEditing]
    /\ saving = [s \in Owners |-> NotSaving]
    /\ placing = [c \in Customers |-> NotPlacing]
    /\ last = [op |-> "init", who |-> "", order |-> 0, input |-> "", outcome |-> ""]
    /\ steps = 0
    /\ catalog = [exists |-> TRUE, name |-> "rice", variants |-> VariantIds,
                  form |-> NotSubmitting]
    /\ inflight = [s \in Owners |-> {}]
    /\ heard = [p \in Owners \cup Customers \cup DeliveryBoys |-> [d \in DocIds |-> NoDoc]]
    /\ poll = [v \in Pollers |-> Mounted(1)]
    /\ cartItems = << >>

\* the owner editing the quantities of a placed order, with writes that may fail
NextEdit ==
    \/ \E s \in Owners : OwnerLoad(s)
    \/ \E s \in Owners, o \in DocIds : startEditingOrder(s, o)
    \/ \E s \in Owners, l \in LineIds, value \in (0 - 1) .. MaxQty : changeEditedQuantity(s, l, value)
    \/ \E s \in Owners : saveEditedQuantities(s)
    \/ \E s \in Owners : SaveContinue(s)
    \/ \E s \in Owners : SaveError(s)

SpecEdit == InitPlaced /\ [][NextEdit]_vars

\* ------------------------------------------------- owner: overlapping reloads
\* loadOrders called by the realtime callback or the polling timer: the store
\* answers the query; the call is still awaiting the answer
loadOrdersRead(s) ==
    /\ Cardinality(inflight[s]) < MaxInFlight
    /\ OwnerSnapshot(orders, items) \notin inflight[s]
    /\ inflight' = [inflight EXCEPT ![s] = @ \cup {OwnerSnapshot(orders, items)}]
    /\ StepCount("load", s, 0, "", "pending")
    /\ UNCHANGED << orders, items, nextId, ownerView, delivView, custView,
                    editing, saving, placing, catalog, heard, poll, cartItems >>

\* ... the answer reaches the call, which passes it to setOrders
loadOrdersApply(s) ==
    /\ \E answer \in inflight[s] :
          /\ ownerView' = [ownerView EXCEPT ![s] = answer]
          /\ inflight' = [inflight EXCEPT ![s] = @ \ {answer}]
    /\ StepCount("load", s, 0, "", "ok")
    /\ UNCHANGED << orders, items, nextId, delivView, custView,
                    editing, saving, placing, catalog, heard, poll, cartItems >>

\* the owner working on a placed order while reloads of the list are under way
NextReload ==
    \/ \E s \in Owners : loadOrdersRead(s)
    \/ \E s \in Owners : loadOrdersApply(s)
    \/ \E s \in Owners, o \in DocIds : OwnerAccept(s, o)
    \/ \E s \in Owners, o \in DocIds : OwnerCancel(s, o)
    \/ \E s \in Owners, o \in DocIds, b \in DeliveryBoys \cup {Null} : assignDeliveryBoy(s, o, b)

SpecReload == InitPlaced /\ [][NextReload]_vars

\* --------------------------------------------------------- realtime channels
\* the filter each view passes to Channel.on for the orders table
ChannelFilter(p, doc) ==
    CASE role(p) = "owner" -> TRUE
      [] role(p) = "customer" -> doc.cust = p
      [] role(p) = "delivery" -> doc.dboy = p /\ doc.status = "accepted"

\* the result of the query Channel.on listens to with onSnapshot
ChannelQuery(ords, p) ==
    [d \in DocIds |-> IF ords[d].exists /\ ChannelFilter(p, ords[d]) THEN ords[d] ELSE NoDoc]

\* onSnapshot calls the listener when the result of its query has changed
ChannelFires(p) == ChannelQuery(orders, p) # heard[p]

channelVars == << orders, items, nextId, editing, saving, placing, last, steps,
                 catalog, inflight, poll, cartItems >>

\* the callback of the owner's channel: loadOrders
OwnerChannel(s) ==
    /\ ChannelFires(s)
    /\ heard' = [heard EXCEPT ![s] = ChannelQuery(orders, s)]
    /\ ownerView' = [ownerView EXCEPT ![s] = OwnerSnapshot(orders, items)]
    /\ UNCHANGED << channelVars, delivView, custView >>

\* the callback of the customer's channel: loadOrders
CustomerChannel(c) ==
    /\ ChannelFires(c)
    /\ heard' = [heard EXCEPT ![c] = ChannelQuery(orders, c)]
    /\ custView' = [custView EXCEPT ![c] = CustomerSnapshot(orders, c)]
    /\ UNCHANGED << channelVars, ownerView, delivView >>

\* the callback of the delivery person's channel: loadAssigned
DeliveryChannel(u) ==
    /\ ChannelFires(u)
    /\ heard' = [heard EXCEPT ![u] = ChannelQuery(orders, u)]
    /\ delivView' = [delivView EXCEPT ![u] = DeliverySnapshot(orders, u)]
    /\ UNCHANGED << channelVars, ownerView, custView >>

\* status changes and assignments of a placed order, with every view mounted
NextChannel ==
    \/ \E s \in Owners, o \in DocIds : OwnerAccept(s, o)
    \/ \E s \in Owners, o \in DocIds : OwnerCancel(s, o)
    \/ \E s \in Owners, o \in DocIds, b \in DeliveryBoys \cup {Null} : assignDeliveryBoy(s, o, b)
    \/ \E u \in DeliveryBoys, o \in DocIds, pin \in PromptInputs : confirmDelivery(u, o, pin)
    \/ \E s \in Owners : OwnerChannel(s)
    \/ \E c \in FirstCustomer : CustomerChannel(c)
    \/ \E u \in DeliveryBoys : DeliveryChannel(u)

\* every change the listener of a mounted view is called for is delivered
SpecChannel ==
    /\ InitPlaced
    /\ [][NextChannel]_vars
    /\ \A s \in Owners : WF_vars(OwnerChannel(s))
    /\ \A c \in FirstCustomer : WF_vars(CustomerChannel(c))
    /\ \A u \in DeliveryBoys : WF_vars(DeliveryChannel(u))

\* ------------------------------------------------------------------ polling
pollVars == << orders, items, nextId, delivView, custView, editing, saving, placing,
              last, steps, catalog, inflight, heard, cartItems >>

\* startPolling without its "already polling" check
startPollingUnguarded(v) ==
    /\ poll[v].mounted
    /\ poll[v].nextTimer <= MaxTimers
    /\ poll' = [poll EXCEPT ![v].attempts = 0,
                            ![v].intervalId = poll[v].nextTimer,
                            ![v].timers = @ \cup {poll[v].nextTimer},
                            ![v].nextTimer = @ + 1,
                            ![v].reloads = 0]
    /\ UNCHANGED << pollVars, ownerView >>

\* an order_placed event or a storage event for order_placed_at: startPolling()
startPolling(v) ==
    /\ poll[v].mounted
    /\ IF poll[v].intervalId # 0
       THEN UNCHANGED poll
       ELSE /\ poll[v].nextTimer <= MaxTimers
            /\ poll' = [poll EXCEPT ![v].attempts = 0,
                                    ![v].intervalId = poll[v].nextTimer,
                                    ![v].timers = @ \cup {poll[v].nextTimer},
                                    ![v].nextTimer = @ + 1,
                                    ![v].reloads = 0]
    /\ UNCHANGED << pollVars, ownerView >>

\* the callback of an active interval: attempts += 1, the reload, and
\* clearInterval(intervalId) once attempts >= MaxAttempts
PollTick(v) ==
    /\ poll[v].timers # {}
    /\ poll[v].reloads < MaxReloads
    /\ LET attempts == poll[v].attempts + 1
           stop == attempts >= MaxAttempts /\ poll[v].intervalId # 0
       IN poll' = [poll EXCEPT
              ![v].attempts = attempts,
              ![v].reloads = @ + 1,
              ![v].timers = IF stop THEN @ \ {poll[v].intervalId} ELSE @,
              ![v].intervalId = IF stop THEN 0 ELSE @]
    /\ ownerView' = IF v = "OrdersManagement"
                    THEN [s \in Owners |-> OwnerSnapshot(orders, items)]
                    ELSE ownerView
    /\ UNCHANGED pollVars

\* the cleanup of the effect: the listeners are removed and the interval cleared
PollUnmount(v) ==
    /\ poll[v].mounted
    /\ poll' = [poll EXCEPT
            ![v].mounted = FALSE,
            ![v].timers = IF poll[v].intervalId # 0 THEN @ \ {poll[v].intervalId} ELSE @]
    /\ UNCHANGED << pollVars, ownerView >>

\* the view is mounted again: the effect runs with fresh variables
PollMount(v) ==
    /\ ~ poll[v].mounted
    /\ poll[v].timers = {}
    /\ poll' = [poll EXCEPT ![v] = Mounted(poll[v].nextTimer)]
    /\ UNCHANGED << pollVars, ownerView >>

NextPolling ==
    \/ \E v \in Pollers : startPolling(v)
    \/ \E v \in Pollers : PollTick(v)
    \/ \E v \in Pollers : PollUnmount(v)
    \/ \E v \in Pollers : PollMount(v)

SpecPolling == InitPlaced /\ [][NextPolling]_vars

\* --------------------------------------------------------------------- cart
cartVars == << orders, items, nextId, ownerView, delivView, custView, editing, saving,
              placing, last, steps, catalog, inflight, heard, poll >>

\* the (item, variant) pairs of the catalog a customer can add, with their prices
Products ==
    { [item |-> "i1", variant |-> "v1", price |-> 50],
      [item |-> "i1", variant |-> "v2", price |-> 30],
      [item |-> "i2", variant |-> "v3", price |-> 20] }

CartEntry(p, quantity) ==
    [item |-> p.item, variant |-> p.variant, price |-> p.price, quantity |-> quantity]

\* item.item.id === itemId && item.variant.id === variantId
SamePair(entry, itemId, variantId) == entry.item = itemId /\ entry.variant = variantId

\* prev.filter(...)
RECURSIVE Without(_, _, _)
Without(prev, itemId, variantId) ==
    IF prev = << >> THEN << >>
    ELSE IF SamePair(Head(prev), itemId, variantId)
         THEN Without(Tail(prev), itemId, variantId)
         ELSE << Head(prev) >> \o Without(Tail(prev), itemId, variantId)

\* CartContext.totalItems
RECURSIVE totalItems(_)
totalItems(entries) ==
    IF entries = << >> THEN 0 ELSE Head(entries).quantity + totalItems(Tail(entries))

\* addToCart that appends the new entry without looking for an existing one
addToCartAppending(newItem) ==
    /\ Len(cartItems) < MaxCartLen
    /\ cartItems' = Append(cartItems, newItem)
    /\ UNCHANGED cartVars

\* CartContext.addToCart
addToCart(newItem) ==
    /\ IF \E i \in 1 .. Len(cartItems) : SamePair(cartItems[i], newItem.item, newItem.variant)
       THEN /\ \A i \in 1 .. Len(cartItems) :
                  cartItems[i].quantity + newItem.quantity <= MaxCartQty
            /\ cartItems' = [i \in 1 .. Len(cartItems) |->
                  IF SamePair(cartItems[i], newItem.item, newItem.variant)
                  THEN [cartItems[i] EXCEPT !.quantity = @ + newItem.quantity]
                  ELSE cartItems[i]]
       ELSE /\ Len(cartItems) < MaxCartLen
            /\ cartItems' = Append(cartItems, newItem)
    /\ UNCHANGED cartVars

\* ItemsList.handleAddToCart with the quantity selected for the item
handleAddToCart(p, selected) ==
    addToCart(CartEntry(p, IF selected = 0 THEN 1 ELSE selected))

\* CartContext.removeFromCart
removeFromCart(itemId, variantId) ==
    /\ cartItems' = Without(cartItems, itemId, variantId)
    /\ UNCHANGED cartVars

\* CartContext.updateQuantity
updateQuantity(itemId, variantId, quantity) ==
    IF quantity <= 0
    THEN removeFromCart(itemId, variantId)
    ELSE /\ cartItems' = [i \in 1 .. Len(cartItems) |->
               IF SamePair(cartItems[i], itemId, variantId)
               THEN [cartItems[i] EXCEPT !.quantity = quantity]
               ELSE cartItems[i]]
         /\ UNCHANGED cartVars

\* CartContext.clearCart
clearCart ==
    /\ cartItems' = << >>
    /\ UNCHANGED cartVars

NextCart ==
    \/ \E p \in Products, selected \in 0 .. MaxQty : handleAddToCart(p, selected)
    \/ \E p \in Products : removeFromCart(p.item, p.variant)
    \/ \E p \in Products, quantity \in (0 - 1) .. MaxCartQty :
            updateQuantity(p.item, p.variant, quantity)
    \/ clearCart

SpecCart == Init /\ [][NextCart]_vars

\* ------------------------------------------------------------------ claims
Stored(d) == orders[d].exists
IsDelivered(d) == orders[d].exists /\ orders[d].status = "delivered"
BecomesDelivered(d) ==
    /\ orders'[d].exists
    /\ orders'[d].status = "delivered"
    /\ ~ IsDelivered(d)

\* the handlers of the three views that act on an existing order
OrderActions ==
    {"ownerAccept", "ownerCancel", "ownerMarkDelivered", "ownerDeliverPin", "assign",
     "saveEditedQuantities", "acceptOrder", "confirmDelivery", "customerCancel",
     "customerDelete"}

\* C1: once an order's stored status is delivered, no step of a handler of the
\* owner, a delivery person or a customer changes its status, delivery person,
\* total or lines (or removes it).
C1_DeliveredIsTerminal ==
    [][last'.op \in OrderActions =>
          \A d \in DocIds :
              IsDelivered(d) => orders'[d] = orders[d] /\ items'[d] = items[d]]_vars

\* C2: every step in which an order becomes delivered starts from a state in which
\* that order is stored with status accepted.
C2_DeliveredOnlyFromAccepted ==
    [][\A d \in DocIds :
          BecomesDelivered(d) => Stored(d) /\ orders[d].status = "accepted"]_vars

\* C3: an accept (owner's or delivery person's) never changes an order whose stored
\* status is accepted, delivered or cancelled, and an accept aimed at such an order
\* is reported as rejected.
C3_AcceptIsIdempotent ==
    [][last'.op \in {"ownerAccept", "acceptOrder"} =>
          \A d \in DocIds :
              (Stored(d) /\ orders[d].status \in {"accepted", "delivered", "cancelled"})
              => /\ orders'[d] = orders[d]
                 /\ d = last'.order => last'.outcome # "ok"]_vars

\* C4: no stored order goes from cancelled to another status, or from delivered to
\* cancelled.
C4_CancelledIsTerminal ==
    [][\A d \in DocIds :
          (Stored(d) /\ orders'[d].exists)
          => /\ orders[d].status = "cancelled" => orders'[d].status = "cancelled"
             /\ orders[d].status = "delivered" => orders'[d].status # "cancelled"]_vars

\* C5: every order a cancel (owner's or customer's) changes is left by that same
\* step with status cancelled and delivery_boy_id null.
C5_CancelClearsDeliveryBoy ==
    [][last'.op \in {"ownerCancel", "customerCancel"} =>
          \A d \in DocIds :
              orders'[d] # orders[d]
              => orders'[d].status = "cancelled" /\ orders'[d].dboy = Null]_vars

\* C5 witness: the owner has just cancelled an order that a delivery person had
\* loaded as assigned to them, and the stored order is cancelled and unassigned.
C5_Witness ==
    \E u \in DeliveryBoys, d \in DocIds :
        /\ last.op = "ownerCancel"
        /\ last.order = d
        /\ delivView[u][d].exists
        /\ delivView[u][d].dboy = u
        /\ orders[d].status = "cancelled"
        /\ orders[d].dboy = Null

\* C6: in every reachable state a stored order has a delivery person only if its
\* status is accepted or delivered.
C6_AssignedOnlyWhenAcceptedOrDelivered ==
    \A d \in DocIds :
        (Stored(d) /\ Truthy(orders[d].dboy))
        => orders[d].status \in {"accepted", "delivered"}

\* C7: for an order stored with a delivery PIN, a confirmDelivery / Deliver (PIN)
\* attempt that submits a non-empty string different from the stored PIN reports
\* PinMismatch and changes nothing in the store, and an attempt that submits the
\* stored PIN leaves the order delivered.
IsPinAttempt(d) ==
    /\ last'.op \in {"confirmDelivery", "ownerDeliverPin"}
    /\ last'.order = d
    /\ last'.input # ""
    /\ Stored(d)
    /\ Truthy(orders[d].pin)

C8_PinIsMandatory ==
    [][\A d \in DocIds :
          (BecomesDelivered(d) /\ Stored(d) /\ Truthy(orders[d].pin))
          => last'.input = orders[d].pin]_vars

\* C9: every step in which an order becomes delivered is either the owner's or
\* that of the delivery person the order is assigned to when the write commits.
C9_DeliveredByAssignee ==
    [][\A d \in DocIds :
          BecomesDelivered(d)
          => \/ last'.who \in Owners
             \/ orders'[d].dboy = last'.who]_vars

\* the sum of the subtotals of a sequence of stored lines
RECURSIVE SumSubtotals(_)
SumSubtotals(ls) ==
    IF ls = << >> THEN 0 ELSE Head(ls).subtotal + SumSubtotals(Tail(ls))

\* C10: when saveEditedQuantities has just reported success for an order, the
\* stored total_amount of that order is the sum of the stored subtotals of its lines.
C10_TotalIsSumAfterEdit ==
    (last.op = "saveEditedQuantities" /\ last.outcome = "ok" /\ Stored(last.order))
    => orders[last.order].total = SumSubtotals(items[last.order])

\* C11: in every reachable state every stored order line has quantity > 0 and
\* subtotal = price * quantity (so an edit to a quantity of 0 or less never reaches
\* the stored line).
C11_LinesArePositive ==
    \A d \in DocIds :
        \A l \in 1 .. Len(items[d]) :
            /\ items[d][l].quantity > 0
            /\ items[d][l].subtotal = items[d][l].price * items[d][l].quantity

\* C12: a customer's order list holds only orders whose customer_id is that
\* customer, and a customer's cancel or delete changes or removes no stored order
\* whose customer_id is not the caller.
C12_CustomerIsolation ==
    [][(\A c \in Customers, d \in DocIds :
            custView'[c][d].exists => custView'[c][d].cust = c)
       /\ (\A d \in DocIds :
            (/\ last'.op \in {"customerCancel", "customerDelete"}
             /\ Stored(d)
             /\ orders[d].cust # last'.who)
            => orders'[d] = orders[d])]_vars
\* C13: an acceptOrder or confirmDelivery changes a stored order only if that
\* order's stored delivery_boy_id is the caller when the write commits, and every
\* order in a delivery person's list carries that person's id as delivery_boy_id.
C13_DeliveryIsolation ==
    [][(\A d \in DocIds :
            (last'.op \in {"acceptOrder", "confirmDelivery"} /\ orders'[d] # orders[d])
            => (Stored(d) /\ orders[d].dboy = last'.who))
       /\ (\A u \in DeliveryBoys, d \in DocIds :
            delivView'[u][d].exists => delivView'[u][d].dboy = u)]_vars
\* C14: a customer's cancel changes no order whose stored status is not pending
\* when the write commits, and a cancel aimed at such an order is reported as
\* rejected.
C14_CustomerCancelOnlyPending ==
    [][\A d \in DocIds :
          (last'.op = "customerCancel" /\ Stored(d) /\ orders[d].status # "pending")
          => /\ orders'[d] = orders[d]
             /\ d = last'.order => last'.outcome # "ok"]_vars

\* C15: no step removes an order whose stored status is accepted or delivered.
C15_DeleteOnlyPendingOrCancelled ==
    [][\A d \in DocIds :
          (Stored(d) /\ orders[d].status \in {"accepted", "delivered"})
          => orders'[d].exists]_vars
\* an id addDoc handed out whose document is gone: only a customer's delete
\* removes documents
WasDeleted(d) == d < nextId /\ ~ Stored(d)

\* C16: once an order has been deleted, no step makes a document with its id
\* appear again, and a step of a handler aimed at the deleted id creates no order
\* document at all.
C16_DeletedStaysDeleted ==
    [][\A d \in DocIds :
          WasDeleted(d)
          => /\ ~ orders'[d].exists
             /\ last'.order = d =>
                    \A e \in DocIds : ~ Stored(e) => ~ orders'[e].exists]_vars
RECURSIVE CartSum(_)
CartSum(cart) ==
    IF cart = << >> THEN 0
    ELSE Head(cart).price * Head(cart).quantity + CartSum(Tail(cart))

\* C18: the order document checkout inserts has status pending, no delivery
\* person, a delivery PIN of exactly 6 characters (decimal digits, as
\* NumberToString writes them), the customer's id, and as total_amount the sum of
\* price * quantity over the cart; the lines checkout inserts are one per cart
\* entry, each with the entry's price and quantity and subtotal = price * quantity,
\* so that their subtotals add up to that total.
C18_PlaceOrderContents ==
    [][\A c \in Customers, o \in DocIds :
          (last'.op = "placeOrder" /\ last'.who = c /\ last'.order = o)
          => IF last'.outcome = "pending"
             THEN /\ orders'[o].exists
                  /\ orders'[o].status = "pending"
                  /\ ~ Truthy(orders'[o].dboy)
                  /\ Len(orders'[o].pin) = 6
                  /\ orders'[o].cust = c
                  /\ orders'[o].total = CartSum(placing'[c].cart)
             ELSE /\ Len(items'[o]) = Len(placing[c].cart)
                  /\ \A l \in 1 .. Len(items'[o]) :
                        /\ items'[o][l].price = placing[c].cart[l].price
                        /\ items'[o][l].quantity = placing[c].cart[l].quantity
                        /\ items'[o][l].subtotal =
                               items'[o][l].price * items'[o][l].quantity
                  /\ SumSubtotals(items'[o]) = CartSum(placing[c].cart)]_vars

\* C18 witness: checkout has just finished for a cart of qty 2 @ 50 and qty 1 @ 30:
\* the order is stored pending, unassigned, with a 6-character PIN, two lines of
\* subtotals 100 and 30, and total_amount 130.
C18_Witness ==
    \E o \in DocIds :
        /\ last.op = "placeOrder"
        /\ last.outcome = "ok"
        /\ last.order = o
        /\ Stored(o)
        /\ orders[o].status = "pending"
        /\ ~ Truthy(orders[o].dboy)
        /\ Len(orders[o].pin) = 6
        /\ Len(items[o]) = 2
        /\ items[o][1].subtotal = 100
        /\ items[o][2].subtotal = 30
        /\ orders[o].total = 130

\* C19: a submit of the checkout form with an empty cart or with a blank street
\* name, village or PIN code is reported as a validation failure and creates no
\* order.
C19_PlaceOrderValidation ==
    [][\A c \in Customers, form \in Forms, cart \in Carts \cup {<< >>}, pin \in Pins :
          (/\ handleSubmit(c, form, cart, pin)
           /\ \/ cart = << >>
              \/ Trim(form.streetName) = ""
              \/ Trim(form.villageName) = ""
              \/ Trim(form.pinCode) = "")
          => /\ last'.outcome = "ValidationFailed"
             /\ orders' = orders
             /\ items' = items]_vars
\* C20: every delivery_boy_id stored in an order that is not null is the id of a
\* profile with role delivery; an owner's assignment changes no order whose stored
\* status is delivered, and changes nothing but delivery_boy_id in the orders it
\* changes (and no line).
C20_AssignmentOnlyBeforeDelivered ==
    [][(\A d \in DocIds :
            (orders'[d].exists /\ Truthy(orders'[d].dboy))
            => role(orders'[d].dboy) = "delivery")
       /\ (\A d \in DocIds :
            (last'.op = "assign" /\ Stored(d))
            => /\ IsDelivered(d) => orders'[d] = orders[d]
               /\ orders'[d] = [orders[d] EXCEPT !.dboy = orders'[d].dboy]
               /\ items'[d] = items[d])]_vars
\* C21: no step removes a stored variant that a stored order line names, and an
\* item edit rejected because of such a line leaves the item as it was when the
\* edit was submitted.
C21_ReferencedVariantKept ==
    [][(\A v \in VariantIds :
            (v \in catalog.variants /\ Referenced(items, {v}))
            => v \in catalog'.variants)
       /\ (last'.outcome = "ReferentialConflict" => catalog'.name = catalog.form.name)]_vars
\* C22: a step of saveEditedQuantities that writes the order's total finds every
\* line write of that save committed: no update is pending, and each stored line
\* of the order holds the quantity the owner entered for it; a save that ends with
\* a store error writes no total.
C22_LinesBeforeTotal ==
    [][\A s \in Owners :
          (last'.op = "saveEditedQuantities" /\ last'.who = s)
          => /\ (orders' # orders
                 => /\ saving[s].updates = << >>
                    /\ \A l \in 1 .. Len(ownerView[s][editing[s].order].order_items) :
                          items'[editing[s].order][l].quantity = editing[s].qty[l])
             /\ (last'.outcome = "StoreError"
                 => orders' = orders /\ saving'[s] = NotSaving)]_vars

\* a save of two changed lines has committed its total
C22_Witness ==
    /\ last.op = "saveEditedQuantities"
    /\ last.outcome = "ok"
    /\ Len(items[1]) = 2
    /\ items[1][1].quantity = 1
    /\ items[1][2].quantity = 2
    /\ orders[1].total = 110

\* C23: a saveEditedQuantities that reports a store error has changed no stored
\* line: every line it wrote before the error already held the quantity written.
C23_FailedSaveChangesNothing ==
    [][\A s \in Owners :
          (last'.op = "saveEditedQuantities" /\ last'.who = s
           /\ last'.outcome = "StoreError" /\ saving[s].order # 0)
          => \A l \in 1 .. Len(ownerView[s][saving[s].order].order_items) :
                (\A i \in 1 .. Len(saving[s].updates) : saving[s].updates[i].line # l)
                => items[saving[s].order][l].quantity
                     = ownerView[s][saving[s].order].order_items[l].quantity]_vars
\* C24: once the owner's list has displayed an order as accepted it never displays
\* that order as pending again (no write sets a stored status back to pending, so
\* pending is an older state of the order than accepted).
C24_OwnerViewNeverRegresses ==
    [][\A s \in Owners, d \in DocIds :
          (ownerView[s][d].doc.exists /\ ownerView[s][d].doc.status = "accepted")
          => ~ (ownerView'[s][d].doc.exists /\ ownerView'[s][d].doc.status = "pending")]_vars
\* C25: once the writes to the order have stopped, the lists of the owner, of the
\* customer who placed it and of every delivery person end up showing, and keep
\* showing, what the store holds for them (for a delivery person: the orders
\* assigned to them that are not cancelled, and no others).
C25_EventuallyVisible ==
    <>[](/\ \A s \in Owners : ownerView[s] = OwnerSnapshot(orders, items)
         /\ \A c \in FirstCustomer : custView[c] = CustomerSnapshot(orders, c)
         /\ \A u \in DeliveryBoys : delivView[u] = DeliverySnapshot(orders, u))
\* C26: each polling view has at most one active interval, the interval has made
\* at most MaxAttempts reloads and is cleared once it has made that many, and a
\* view that is not mounted has no active interval.
C26_PollingBounded ==
    \A v \in Pollers :
        /\ Cardinality(poll[v].timers) <= 1
        /\ poll[v].reloads <= MaxAttempts
        /\ poll[v].reloads = MaxAttempts => poll[v].timers = {}
        /\ ~ poll[v].mounted => poll[v].timers = {}

\* a polling run of the owner's list has made its last reload and stopped, and a
\* later signal has started the next run
C26_Witness ==
    /\ poll["OrdersManagement"].mounted
    /\ poll["OrdersManagement"].nextTimer = 3
    /\ poll["OrdersManagement"].timers = {2}
    /\ poll["CustomerApp"].reloads = MaxAttempts
\* C27: a handler's write filtered on the id of one order leaves every other
\* stored order as it was and creates none, and when no stored order matches its
\* filter (the id alone; for acceptOrder the id and the caller as delivery_boy_id)
\* the orders collection is left as it was.
C27_WriteTouchesOnlyItsOrder ==
    [][/\ \A d \in DocIds : d # last'.order => orders'[d] = orders[d]
       /\ (last'.op # "placeOrder" /\ last'.order \in DocIds /\ ~ Stored(last'.order))
          => orders' = orders
       /\ (last'.op = "acceptOrder" /\ orders[last'.order].dboy # last'.who)
          => orders' = orders]_vars
\* C28: a checkout that reports a store error leaves no order of that attempt
\* stored, and a checkout that reports success leaves the order stored with one
\* line for each cart entry.
C28_PlaceOrderAllOrNothing ==
    [][\A c \in Customers :
          (last'.op = "placeOrder" /\ last'.who = c)
          => /\ (last'.outcome = "StoreError" /\ placing[c].order # 0)
                => ~ orders'[placing[c].order].exists
             /\ last'.outcome = "ok"
                => /\ orders'[last'.order].exists
                   /\ Len(items'[last'.order]) = Len(placing[c].cart)
                   /\ Len(items'[last'.order]) > 0]_vars
\* C29: no two stored orders placed by checkout carry the same order_number.
C29_OrderNumbersUnique ==
    \A d \in DocIds, e \in DocIds :
        (d # e /\ Stored(d) /\ Stored(e) /\ orders[d].number # NoNumber)
        => orders[d].number # orders[e].number
\* the entries of a cart other than the one for the pair, in their order
EntriesExcept(entries, itemId, variantId) ==
    SelectSeq(entries, LAMBDA e : ~ (e.item = itemId /\ e.variant = variantId))

\* C30: after every cart operation the cart has at most one entry for each
\* (item id, variant id) pair, every entry has a quantity above 0, and totalAmount
\* and totalItems are the sums of price * quantity and of quantity over the
\* entries; updateQuantity with a quantity of 0 or less removes the entry of its
\* pair and leaves the other entries as they were.
C30_CartWellFormed ==
    [][/\ \A i \in 1 .. Len(cartItems'), j \in 1 .. Len(cartItems') :
             (cartItems'[i].item = cartItems'[j].item
              /\ cartItems'[i].variant = cartItems'[j].variant) => i = j
       /\ \A i \in 1 .. Len(cartItems') : cartItems'[i].quantity > 0
       /\ totalAmount(cartItems') = CartSum(cartItems')
       /\ totalItems(cartItems')
            = CartSum([i \in 1 .. Len(cartItems') |->
                        [price |-> 1, quantity |-> cartItems'[i].quantity]])
       /\ \A p \in Products, quantity \in (0 - 1) .. 0 :
             updateQuantity(p.item, p.variant, quantity)
             => /\ cartItems' = EntriesExcept(cartItems, p.item, p.variant)
                /\ Len(cartItems') >= Len(cartItems) - 1]_vars

\* two entries, one of them raised to 3 by adding its pair again
C30_Witness ==
    /\ Len(cartItems) = 2
    /\ cartItems[1].variant = "v2"
    /\ cartItems[1].quantity = 3
    /\ cartItems[2].variant = "v3"
    /\ totalAmount(cartItems) = 110

====
